---- MODULE Spec2Model ----
(***************************************************************************)
(* SoloLayout of electrum/gui/qt/seed_dialog.py: the dialog page on which  *)
(* the address and the secrets of one Solo (or of two Solo Pro devices)    *)
(* are entered, and the verification run by its next button.               *)
(*                                                                         *)
(* Texts are sequences of character codes.  Codes 1..AlphabetSize stand    *)
(* for characters of the base-58 alphabet, code 0 for the character '0',   *)
(* which is not in it.                                                     *)
(***************************************************************************)
EXTENDS Integers, Sequences, FiniteSets, TLC

\* Bounds of the model.
AlphabetSize == 2
KeySpace == 2

\* Constants of the program.
Size1 == 28
Size2 == 14
CheckedLen == 30
TruncLen == 29
NumIndexes == 3
SoloProDevices == 2
FieldPrime == 5
None == -1

RECURSIVE SumTo(_, _)
SumTo(s, n) == IF n = 0 THEN 0 ELSE s[n] + SumTo(s, n - 1)

\* The sum of the character codes of a text.
SumChars(s) == SumTo(s, Len(s))

Fill(c, n) == [i \in 1..n |-> c]

-----------------------------------------------------------------------------
(* Collaborators imported at seed_dialog.py:33-34,42.                      *)

\* electrum.bitcoin.is_base58: membership of every character in the alphabet.
is_base58(s) == \A i \in 1..Len(s) : s[i] \in 1..AlphabetSize

\* The checksum character of a 29-character body.
SoloCheckChar(body) == (SumChars(body) % AlphabetSize) + 1

\* electrum.solo.verify_solo_check, used on 30-character secrets only.
verify_solo_check(s) ==
    /\ Len(s) = CheckedLen
    /\ s[CheckedLen] = SoloCheckChar(SubSeq(s, 1, TruncLen))

\* electrum.solo.compute_privatekey_bitcoin: a deterministic key of the two
\* secrets, taken in this order.
compute_privatekey_bitcoin(secret1, secret2) ==
    (SumChars(secret1) + 3 * SumChars(secret2)) % KeySpace

\* electrum.bitcoin.address_from_private_key: version character, then payload.
address_from_private_key(k) == <<1, k + 1>>

\* electrum.bitcoin.is_address: the format check of an address string.
is_address(a) == Len(a) = 2 /\ a[1] = 1 /\ a[2] >= 1

\* Inverse in the prime field used by the interpolation.
FieldInv(d) == CHOOSE e \in 1..(FieldPrime - 1) : (d * e) % FieldPrime = 1

\* electrum.solo.reconstruct fails on repeated indices and on shares shorter
\* than the secret.
reconstruct_fails(shares, size) ==
    \/ \E i, j \in 1..Len(shares) : i # j /\ shares[i][1] = shares[j][1]
    \/ \E i \in 1..Len(shares) : Len(shares[i][2]) < size

\* electrum.solo.reconstruct: interpolation at 0, character by character, of
\* the two shares (index, text).
reconstruct(shares, size) ==
    LET x1 == shares[1][1]
        x2 == shares[2][1]
        inv == FieldInv((x2 - x1 + FieldPrime) % FieldPrime)
    IN  [i \in 1..size |->
            (((shares[1][2][i] * x2 + (FieldPrime - 1) * shares[2][2][i] * x1) * inv)
                % FieldPrime)]

-----------------------------------------------------------------------------
(* The texts a user enters.                                                *)

Body29 == Fill(1, TruncLen)
Bare28 == Fill(1, Size1)
Bare14 == Fill(1, Size2)
Checked30 == Append(Body29, SoloCheckChar(Body29))
Unchecked30 == Append(Body29, CHOOSE c \in 1..AlphabetSize : c # SoloCheckChar(Body29))
NotBase58 == Fill(0, Size1)
Empty == <<>>

\* The texts tried in a field of secret 1 and in a field of secret 2; every
\* field starts empty.
Secret1Texts == {Bare28, Bare14, Checked30, Unchecked30, NotBase58}
Secret2Texts == {Bare14, Bare28, Checked30, Unchecked30}
SecretTexts(numsec) == IF numsec = 1 THEN Secret1Texts ELSE Secret2Texts
AddressTexts == {Empty} \cup {address_from_private_key(k) : k \in 0..(KeySpace - 1)}

-----------------------------------------------------------------------------
VARIABLES
    number_solo,    \* self.number_solo
    address,        \* self.address.text()
    solos,          \* self.solos: per device the index selector and the secrets
    key,            \* self.key
    next_enabled,   \* parent.next_button.isEnabled()
    next_clicked,   \* handlers connected to parent.next_button.clicked
    back_clicked,   \* handlers connected to parent.back_button.clicked
    loop_exit,      \* exit code of parent.loop, 0 while it runs
    last            \* what the most recent handler did

vars == <<number_solo, address, solos, key, next_enabled, next_clicked,
          back_clicked, loop_exit, last>>

\* The record of a handler: the errors it showed, the calls it made to
\* reconstruct and to compute_privatekey_bitcoin, and how it ended.
Did(handler, errors, recon, derive, outcome) ==
    [handler |-> handler, errors |-> errors, recon |-> recon,
     derive |-> derive, outcome |-> outcome]

Quiet(handler) == Did(handler, <<>>, <<>>, <<>>, "returned")

\* display_secrets: one row per device; a selector only with several devices.
display_secrets(n) ==
    [i \in 1..n |->
        [cb |-> IF n > 1 THEN i - 1 ELSE None, secret1 |-> Empty, secret2 |-> Empty]]

\* SoloLayout.__init__
Init ==
    /\ number_solo \in {1, SoloProDevices}
    /\ address = Empty
    /\ solos = display_secrets(number_solo)
    /\ key = None
    /\ next_enabled = FALSE
    /\ next_clicked = <<"check_key">>
    /\ back_clicked = <<"back">>
    /\ loop_exit = 0
    /\ last = Quiet("__init__")

-----------------------------------------------------------------------------
(* SoloLayout.on_edit                                                      *)

\* The value on_edit gives to the next button: every secret is base 58 and,
\* with several devices, no selector repeats the index of an earlier device.
OnEditEnabledNoIndexes(ss, n) ==
    \A i \in 1..n : is_base58(ss[i].secret1) /\ is_base58(ss[i].secret2)

OnEditEnabled(ss, n) ==
    \A i \in 1..n :
        /\ is_base58(ss[i].secret1)
        /\ is_base58(ss[i].secret2)
        /\ (n > 1 => \A j \in 1..(i - 1) : ss[j].cb # ss[i].cb)

-----------------------------------------------------------------------------
(* SoloLayout.get_key                                                      *)

TruncateShort(secret) == SubSeq(secret, 1, TruncLen - 1)

Truncate(secret) == SubSeq(secret, 1, TruncLen)

GetKeyResultAlways(k, addr) == k

\* What get_key returns for the computed key.
GetKeyResult(k, addr) == IF address_from_private_key(k) = addr THEN k ELSE None

Shares1(ss, n) == [i \in 1..n |-> <<ss[i].cb + 1, ss[i].secret1>>]
Shares2(ss, n) == [i \in 1..n |-> <<ss[i].cb + 1, ss[i].secret2>>]

\* A call of get_key ending in an exception before the key is computed;
\* self.key keeps the value k it had.
Raised(recon, k) ==
    [outcome |-> "raised", ret |-> None, key |-> k, recon |-> recon, derive |-> <<>>]

\* A call of get_key that reaches compute_privatekey_bitcoin.
Derived(recon, secret1, secret2, addr) ==
    LET k == compute_privatekey_bitcoin(secret1, secret2)
    IN  [outcome |-> "returned", ret |-> GetKeyResult(k, addr), key |-> k,
         recon |-> recon, derive |-> << <<secret1, secret2>> >>]

\* The single-device branch.  wrong_secret is defined nowhere: reaching the
\* call raises NameError.
GetKeySingle(ss, addr, k) ==
    LET secret1 == ss[1].secret1
        secret2 == ss[1].secret2
    IN  IF Len(secret1) = CheckedLen /\ ~verify_solo_check(secret1)
        THEN Raised(<<>>, k)
        ELSE IF Len(secret2) = CheckedLen /\ ~verify_solo_check(secret2)
        THEN Raised(<<>>, k)
        ELSE Derived(<<>>,
                     IF Len(secret1) = CheckedLen THEN Truncate(secret1) ELSE secret1,
                     IF Len(secret2) = CheckedLen THEN Truncate(secret2) ELSE secret2,
                     addr)

\* The branch for several devices: the shares are the texts as entered.
GetKeyMulti(ss, addr, n, k) ==
    LET shares1 == Shares1(ss, n)
        shares2 == Shares2(ss, n)
    IN  IF reconstruct_fails(shares1, Size1)
        THEN Raised(<< <<shares1, Size1>> >>, k)
        ELSE IF reconstruct_fails(shares2, Size2)
        THEN Raised(<< <<shares1, Size1>>, <<shares2, Size2>> >>, k)
        ELSE Derived(<< <<shares1, Size1>>, <<shares2, Size2>> >>,
                     reconstruct(shares1, Size1), reconstruct(shares2, Size2), addr)

GetKey(ss, addr, n, k) ==
    IF n = 1 THEN GetKeySingle(ss, addr, k) ELSE GetKeyMulti(ss, addr, n, k)

-----------------------------------------------------------------------------
(* SoloLayout.check_key                                                    *)

\* for numsec, sizesec in [("1",28),("2",14)]
SecretSizes == << <<1, Size1>>, <<2, Size2>> >>

ScanOrderSecret2First(n) ==
    [p \in 1..(2 * n) |->
        <<(p + 1) \div 2, SecretSizes[2 - ((p - 1) % 2)][1],
          SecretSizes[2 - ((p - 1) % 2)][2]>>]

\* The order in which check_key visits (device, numsec, sizesec).
ScanOrder(n) ==
    [p \in 1..(2 * n) |->
        <<(p + 1) \div 2, SecretSizes[((p - 1) % 2) + 1][1],
          SecretSizes[((p - 1) % 2) + 1][2]>>]

SecretOf(solo, numsec) == IF numsec = 1 THEN solo.secret1 ELSE solo.secret2

\* The device number put in a message: none (0) with a single device.
SoloNum(ss, i, n) == IF n > 1 THEN ss[i].cb + 1 ELSE 0

LengthOkAnySize(text, sizesec) == Len(text) \in {Size1, Size2, CheckedLen}

LengthOk(text, sizesec) == Len(text) = sizesec \/ Len(text) = CheckedLen

ChecksumOk(text) == ~(Len(text) = CheckedLen /\ ~verify_solo_check(text))

SizeError(numsec, solonum, sizesec) ==
    [kind |-> "size", numsec |-> numsec, solonum |-> solonum, sizesec |-> sizesec]
ChecksumError(numsec, solonum) ==
    [kind |-> "checksum", numsec |-> numsec, solonum |-> solonum, sizesec |-> 0]
AddressError == [kind |-> "address", numsec |-> 0, solonum |-> 0, sizesec |-> 0]
MismatchError == [kind |-> "mismatch", numsec |-> 0, solonum |-> 0, sizesec |-> 0]

\* The loop over the secrets, from position p of the order: the errors shown
\* before it returns, none when it runs to its end.
RECURSIVE ScanSecrets(_, _, _)
ScanSecrets(ss, n, p) ==
    IF p > Len(ScanOrder(n)) THEN <<>>
    ELSE LET c == ScanOrder(n)[p]
             text == SecretOf(ss[c[1]], c[2])
         IN  IF ~LengthOk(text, c[3])
             THEN <<SizeError(c[2], SoloNum(ss, c[1], n), c[3])>>
             ELSE IF ~ChecksumOk(text)
             THEN <<ChecksumError(c[2], SoloNum(ss, c[1], n))>>
             ELSE ScanSecrets(ss, n, p + 1)

PreCheckNoAddress(ss, addr, n) == ScanSecrets(ss, n, 1)

\* The errors of the checks made before get_key is called.
PreCheck(ss, addr, n) ==
    LET e == ScanSecrets(ss, n, 1)
    IN  IF e # <<>> THEN e
        ELSE IF ~is_address(addr) THEN <<AddressError>>
        ELSE <<>>

\* reset_buttons: both signals are disconnected, then connected to the exits.
ResetNextNoDisconnect(handlers) == Append(handlers, "exit2")

ResetNext(handlers) == <<"exit2">>
ResetBack(handlers) == <<"exit1">>

\* check_key as a whole: the record of the handler, the key it leaves in
\* self.key, and whether it reset the buttons and left the loop.
CheckKey(ss, addr, n, k) ==
    LET pre == PreCheck(ss, addr, n)
        g == GetKey(ss, addr, n, k)
    IN  IF pre # <<>>
        THEN [did |-> Did("check_key", pre, <<>>, <<>>, "returned"), key |-> k,
              accepted |-> FALSE]
        ELSE IF g.outcome = "raised"
        THEN [did |-> Did("check_key", <<>>, g.recon, g.derive, "raised"),
              key |-> g.key, accepted |-> FALSE]
        ELSE IF g.ret = None
        THEN [did |-> Did("check_key", <<MismatchError>>, g.recon, g.derive, "returned"),
              key |-> g.key, accepted |-> FALSE]
        ELSE [did |-> Did("check_key", <<>>, g.recon, g.derive, "returned"),
              key |-> g.key, accepted |-> TRUE]

-----------------------------------------------------------------------------
(* The events of the page.                                                 *)

\* textChanged of a secret field, then on_edit.
EditSecret(i, numsec, text) ==
    /\ loop_exit = 0
    /\ i \in 1..number_solo
    /\ SecretOf(solos[i], numsec) # text
    /\ solos' = [solos EXCEPT ![i] =
                    IF numsec = 1 THEN [@ EXCEPT !.secret1 = text]
                                  ELSE [@ EXCEPT !.secret2 = text]]
    /\ next_enabled' = OnEditEnabled(solos', number_solo)
    /\ last' = Quiet("on_edit")
    /\ UNCHANGED <<number_solo, address, key, next_clicked, back_clicked, loop_exit>>

\* textChanged of the address field, then on_edit.
EditAddress(text) ==
    /\ loop_exit = 0
    /\ address # text
    /\ address' = text
    /\ next_enabled' = OnEditEnabled(solos, number_solo)
    /\ last' = Quiet("on_edit")
    /\ UNCHANGED <<number_solo, solos, key, next_clicked, back_clicked, loop_exit>>

\* currentIndexChanged of a device's selector, then on_edit.
SelectIndex(i, ind) ==
    /\ loop_exit = 0
    /\ number_solo > 1
    /\ i \in 1..number_solo
    /\ solos[i].cb # ind
    /\ solos' = [solos EXCEPT ![i].cb = ind]
    /\ next_enabled' = OnEditEnabled(solos', number_solo)
    /\ last' = Quiet("on_edit")
    /\ UNCHANGED <<number_solo, address, key, next_clicked, back_clicked, loop_exit>>

\* A click on the enabled next button runs the handler connected to it.
ClickNext ==
    /\ loop_exit = 0
    /\ next_enabled
    /\ IF Head(next_clicked) = "check_key"
       THEN \E r \in {CheckKey(solos, address, number_solo, key)} :
                /\ last' = r.did
                /\ key' = r.key
                /\ next_clicked' = IF r.accepted THEN ResetNext(next_clicked)
                                   ELSE next_clicked
                /\ back_clicked' = IF r.accepted THEN ResetBack(back_clicked)
                                   ELSE back_clicked
                /\ loop_exit' = IF r.accepted THEN 2 ELSE 0
       ELSE /\ last' = Quiet(Head(next_clicked))
            /\ loop_exit' = 2
            /\ UNCHANGED <<key, next_clicked, back_clicked>>
    /\ UNCHANGED <<number_solo, address, solos, next_enabled>>

\* A click on the back button runs the handler connected to it.
ClickBack ==
    /\ loop_exit = 0
    /\ IF Head(back_clicked) = "back"
       THEN /\ next_clicked' = ResetNext(next_clicked)
            /\ back_clicked' = ResetBack(back_clicked)
       ELSE UNCHANGED <<next_clicked, back_clicked>>
    /\ last' = Quiet(Head(back_clicked))
    /\ loop_exit' = 1
    /\ UNCHANGED <<number_solo, address, solos, key, next_enabled>>

\* get_key called by the owner of the layout, outside check_key, on shares
\* that reconstruct accepts.
CallGetKey ==
    \E g \in {GetKey(solos, address, number_solo, key)} :
        /\ number_solo > 1 =>
              /\ ~reconstruct_fails(Shares1(solos, number_solo), Size1)
              /\ ~reconstruct_fails(Shares2(solos, number_solo), Size2)
        /\ key' = g.key
        /\ last' = Did("get_key", <<>>, g.recon, g.derive, g.outcome)
        /\ UNCHANGED <<number_solo, address, solos, next_enabled, next_clicked,
                       back_clicked, loop_exit>>

Next ==
    \/ \E i \in 1..SoloProDevices, numsec \in {1, 2} :
            \E text \in SecretTexts(numsec) : EditSecret(i, numsec, text)
    \/ \E text \in AddressTexts : EditAddress(text)
    \/ \E i \in 1..SoloProDevices, ind \in 0..(NumIndexes - 1) : SelectIndex(i, ind)
    \/ ClickNext
    \/ ClickBack

Spec == Init /\ [][Next]_vars

\* The page with, besides its events, calls of get_key from outside.
NextDirect == Next \/ CallGetKey

SpecDirect == Init /\ [][NextDirect]_vars

TypeOK ==
    /\ number_solo \in {1, SoloProDevices}
    /\ address \in AddressTexts
    /\ key \in {None} \cup 0..(KeySpace - 1)
    /\ next_enabled \in BOOLEAN
    /\ loop_exit \in {0, 1, 2}
    /\ \A i \in 1..number_solo :
          /\ solos[i].secret1 \in Secret1Texts \cup {Empty}
          /\ solos[i].secret2 \in Secret2Texts \cup {Empty}

-----------------------------------------------------------------------------
(* What the properties speak of, stated on the entered texts themselves.   *)

Devices == 1..number_solo
Entered(i, numsec) == IF numsec = 1 THEN solos[i].secret1 ELSE solos[i].secret2
BareLen(numsec) == IF numsec = 1 THEN Size1 ELSE Size2
FirstChars(text, n) == [j \in 1..n |-> text[j]]

WrongLength(i, numsec) == Len(Entered(i, numsec)) \notin {BareLen(numsec), CheckedLen}
BadChecksum(i, numsec) ==
    /\ Len(Entered(i, numsec)) = CheckedLen
    /\ Entered(i, numsec)[CheckedLen] #
          (SumChars(FirstChars(Entered(i, numsec), TruncLen)) % AlphabetSize) + 1
SecretPasses(i, numsec) == ~WrongLength(i, numsec) /\ ~BadChecksum(i, numsec)
AllSecretsPass == \A i \in Devices, numsec \in {1, 2} : SecretPasses(i, numsec)

\* The device number a message carries.
DeviceNumber(i) == IF number_solo > 1 THEN solos[i].cb + 1 ELSE 0

\* The secrets scanned before secret numsec of device i.
Earlier(i, numsec) ==
    {c \in Devices \X {1, 2} : c[1] < i \/ (c[1] = i /\ c[2] < numsec)}

\* The most recent handler was check_key; the texts are those it read, since
\* every edit runs on_edit.
Attempted == last.handler = "check_key"
AttemptRejected == Attempted /\ loop_exit = 0
AttemptAccepted == Attempted /\ loop_exit = 2

Shown(e) == \E j \in 1..Len(last.errors) : last.errors[j] = e

\* The first secret that fails a check, in scan order.
FirstFailing ==
    CHOOSE c \in Devices \X {1, 2} :
        /\ ~SecretPasses(c[1], c[2])
        /\ \A d \in Earlier(c[1], c[2]) : SecretPasses(d[1], d[2])

\* The error of the first failing check of the whole attempt.
FirstFailure ==
    IF ~AllSecretsPass
    THEN IF WrongLength(FirstFailing[1], FirstFailing[2])
         THEN SizeError(FirstFailing[2], DeviceNumber(FirstFailing[1]),
                        BareLen(FirstFailing[2]))
         ELSE ChecksumError(FirstFailing[2], DeviceNumber(FirstFailing[1]))
    ELSE IF ~is_address(address) THEN AddressError
    ELSE MismatchError

\* Under Spec no handler ends in an exception.
NoRaiseInPage == last.outcome = "returned"

-----------------------------------------------------------------------------
\* C1: an attempt ends accepted (loop left with code 2) only if every secret
\* passed the length and checksum checks, the address passed the format
\* check and the address of the computed key equals the entered address;
\* and an attempt whose computed key has another address is rejected with
\* the mismatch message, the loop still running.
C1_AcceptOnlyVerified ==
    Attempted =>
        /\ loop_exit = 2 =>
              /\ AllSecretsPass
              /\ is_address(address)
              /\ Len(last.derive) = 1
              /\ key = compute_privatekey_bitcoin(last.derive[1][1], last.derive[1][2])
              /\ address_from_private_key(key) = address
        /\ \A j \in 1..Len(last.derive) :
              address_from_private_key(
                  compute_privatekey_bitcoin(last.derive[j][1], last.derive[j][2]))
                      # address
              => loop_exit = 0 /\ last.errors = <<MismatchError>>

C1_Witness ==
    /\ AttemptAccepted
    /\ solos[1].secret1 = Checked30
    /\ address_from_private_key(key) = address

\* C2 as stated: every secret of wrong length gets the wrong-length error
\* naming its component, and a secret of bare length or length 30 never does.
C2_EveryWrongLengthReported ==
    Attempted =>
        \A i \in Devices, numsec \in {1, 2} :
            IF WrongLength(i, numsec)
            THEN /\ loop_exit = 0
                 /\ Shown(SizeError(numsec, DeviceNumber(i), BareLen(numsec)))
            ELSE ~Shown(SizeError(numsec, DeviceNumber(i), BareLen(numsec)))

\* C2 amended: a secret of wrong length makes the attempt end rejected, and
\* the error shown is the wrong-length error naming its component and its
\* lengths when every secret scanned before it passed its checks; a secret
\* of bare length or length 30 never gets the wrong-length error.
C2_WrongLengthRejected ==
    Attempted =>
        \A i \in Devices, numsec \in {1, 2} :
            IF WrongLength(i, numsec)
            THEN /\ loop_exit = 0
                 /\ last.errors # <<>>
                 /\ (\A d \in Earlier(i, numsec) : SecretPasses(d[1], d[2]))
                      => last.errors =
                            <<SizeError(numsec, DeviceNumber(i), BareLen(numsec))>>
            ELSE ~Shown(SizeError(numsec, DeviceNumber(i), BareLen(numsec)))

C2_Witness ==
    /\ AttemptRejected
    /\ solos[1].secret1 = Bare14
    /\ last.errors = <<SizeError(1, DeviceNumber(1), Size1)>>

\* C3: no 30-character text reaches reconstruct or
\* compute_privatekey_bitcoin, with one device or with several: what is
\* passed for a 30-character secret is its first 29 characters.
C3_No30CharsPassedOn ==
    /\ \A j \in 1..Len(last.recon) : \A m \in 1..Len(last.recon[j][1]) :
          Len(last.recon[j][1][m][2]) # CheckedLen
    /\ \A j \in 1..Len(last.derive) :
          Len(last.derive[j][1]) # CheckedLen /\ Len(last.derive[j][2]) # CheckedLen

\* C4: reconstruct is never given two shares with the same index, and every
\* index it is given is 1, 2 or 3; after any edit the next button is enabled
\* exactly when the secrets are base 58 and the indices differ.
C4_DistinctIndexes ==
    /\ \A j \in 1..Len(last.recon) :
          LET shares == last.recon[j][1]
          IN  /\ \A a, b \in 1..Len(shares) : a # b => shares[a][1] # shares[b][1]
              /\ \A a \in 1..Len(shares) : shares[a][1] \in 1..NumIndexes
    /\ (number_solo > 1 /\ last.handler \in {"on_edit", "check_key"}) =>
          (next_enabled <=>
              /\ Cardinality({solos[i].cb : i \in Devices}) = number_solo
              /\ \A i \in Devices, numsec \in {1, 2} :
                    \A m \in 1..Len(Entered(i, numsec)) :
                        Entered(i, numsec)[m] \in 1..AlphabetSize)

C4_Witness ==
    /\ number_solo > 1
    /\ Len(last.recon) = 2
    /\ solos[1].cb = 2
    /\ solos[2].cb = 0

\* C5: after an attempt that ends rejected, self.key holds no key.
C5_NoKeyAfterRejection == AttemptRejected => key = None

\* C6: compute_privatekey_bitcoin and reconstruct are called by check_key
\* alone, never by on_edit, the former at most once per click, and only when
\* every secret passed its checks and the address its format check; an
\* attempt failing one of them starts neither.
C6_DerivationOnlyOnVerify ==
    /\ Len(last.derive) <= 1
    /\ (last.derive # <<>> \/ last.recon # <<>>) =>
          /\ Attempted
          /\ AllSecretsPass
          /\ is_address(address)
    /\ (Attempted /\ ~(AllSecretsPass /\ is_address(address))) =>
          /\ last.derive = <<>>
          /\ last.recon = <<>>
          /\ loop_exit = 0
          /\ last.errors # <<>>

C6_Witness ==
    /\ Attempted
    /\ Len(last.derive) = 1
    /\ last.errors = <<MismatchError>>

\* C7: check_key and get_key never end by raising an exception.
C7_NoException == last.outcome # "raised"

\* C8: an attempt that ends rejected showed exactly one error, that of the
\* first failing check (devices in order, secret 1 before secret 2, length
\* before checksum, then address format, then address match), left the loop
\* running and the buttons wired as before, and derived at most once.
C8_OneErrorFirstFailure ==
    AttemptRejected =>
        /\ last.errors = <<FirstFailure>>
        /\ next_clicked = <<"check_key">>
        /\ back_clicked = <<"back">>
        /\ Len(last.derive) <= 1
        /\ last.outcome = "returned"

C8_Witness ==
    /\ AttemptRejected
    /\ BadChecksum(1, 1)
    /\ WrongLength(1, 2)
    /\ last.errors = <<ChecksumError(1, DeviceNumber(1))>>

\* C9: with one device, compute_privatekey_bitcoin gets (secret 1, secret 2)
\* in this order and without reconstruction: a secret of bare length as
\* entered, a secret of length 30 as its first 29 characters.
C9_SingleDeviceArguments ==
    (number_solo = 1 /\ last.derive # <<>>) =>
        /\ last.recon = <<>>
        /\ last.derive =
              << << IF Len(Entered(1, 1)) = CheckedLen
                    THEN FirstChars(Entered(1, 1), TruncLen) ELSE Entered(1, 1),
                    IF Len(Entered(1, 2)) = CheckedLen
                    THEN FirstChars(Entered(1, 2), TruncLen) ELSE Entered(1, 2) >> >>

C9_Witness ==
    /\ number_solo = 1
    /\ solos[1].secret1 = Checked30
    /\ solos[1].secret2 = Bare14
    /\ last.derive = << <<Body29, Bare14>> >>

\* C10: while the loop runs next is wired to check_key and back to back; the
\* loop is left with code 1 by back alone and with code 2 by a successful
\* check_key alone, and once it is left each button is wired to its plain
\* exit handler, exactly once.
C10_WiringAndExit ==
    /\ loop_exit = 0 => next_clicked = <<"check_key">> /\ back_clicked = <<"back">>
    /\ loop_exit # 0 => next_clicked = <<"exit2">> /\ back_clicked = <<"exit1">>
    /\ loop_exit = 1 => last.handler = "back"
    /\ loop_exit = 2 =>
          /\ last.handler = "check_key"
          /\ last.errors = <<>>
          /\ key # None

C10_Witness ==
    /\ loop_exit = 1
    /\ last.handler = "back"
    /\ key # None

====
